---- MODULE Spec2Model ----
(***************************************************************************)
(* Model of the incremental Merkle tree of schmerkle-rust                  *)
(* (src/src/node.rs, src/src/tree.rs) and of the proof verification loop   *)
(* of its tests (src/src/lib.rs).                                          *)
(*                                                                         *)
(* Hashing.  The hasher is a parameter of the tree (BuildMerkleHasher).    *)
(* It is modelled as a collision-free function of the byte stream written  *)
(* to it.  A byte stream is a sequence of integers: a value v writes the   *)
(* one token v (v >= 0), and the digest of the stream s is the stream      *)
(* <<HOpen>> \o s \o <<HClose>>.  Brackets balance, so a stream parses in  *)
(* one way only into its values and digests, as a concatenation of         *)
(* fixed-width byte strings does, and two digests are equal exactly when   *)
(* the streams they were computed from are equal.                          *)
(***************************************************************************)
EXTENDS Integers, Sequences, FiniteSets, TLC

\* ---------------------------------------------------------------- bounds
MaxLeaves == 7      \* leaves a tree receives at most
MaxVal    == 2      \* leaf values are 0..MaxVal
MaxBatch  == 2      \* items of one insert_items call at most
MaxOther  == 1      \* leaves of a tree handed to tree_proof that is no part
                    \* of the tree asked

Values == 0 .. MaxVal

SeqsUpTo(n) == UNION { [1..k -> Values] : k \in 0..n }

\* ---------------------------------------------------------------- hasher
HOpen  == 0 - 1
HClose == 0 - 2

\* MerkleHasher::finish_full of a hasher that was fed the stream s.
FinishFull(s) == <<HOpen>> \o s \o <<HClose>>

\* Variant of ValueFeed: hashing a leaf writes nothing of its value.
ValueFeedNothing(v) == <<>>

\* V::hash(state): the bytes a value writes to the hasher.
ValueFeed(v) == <<v>>

\* ---------------------------------------------------------------- nodes
None == [kind |-> "None"]

IsSome(n) == n.kind # "None"

RECURSIVE NodeFeedCopyPaste(_)
\* Variant of NodeFeed: the arm for two children hashes the left child
\* twice, as the arm for a lone left child does.
NodeFeedCopyPaste(n) ==
    IF n.kind = "Leaf" THEN <<n.value>>
    ELSE IF n.kind = "Branch" THEN
        IF IsSome(n.left)
            THEN NodeFeedCopyPaste(n.left) \o NodeFeedCopyPaste(n.left)
        ELSE IF IsSome(n.right)
            THEN NodeFeedCopyPaste(n.right) \o NodeFeedCopyPaste(n.right)
        ELSE <<>>
    ELSE <<>>

RECURSIVE NodeFeed(_)
\* impl Hash for Node / Leaf / Branch: what hashing a node writes to the
\* hasher.  A Leaf writes its value; a Branch hashes its children in turn
\* (a lone child twice), and hashing a child writes what the child's own
\* hash() writes, not the child's cached digest.
NodeFeed(n) ==
    IF n.kind = "Leaf" THEN ValueFeed(n.value)
    ELSE IF n.kind = "Branch" THEN
        IF IsSome(n.left) /\ IsSome(n.right)
            THEN NodeFeed(n.left) \o NodeFeed(n.right)
        ELSE IF IsSome(n.left) THEN NodeFeed(n.left) \o NodeFeed(n.left)
        ELSE IF IsSome(n.right) THEN NodeFeed(n.right) \o NodeFeed(n.right)
        ELSE <<>>
    ELSE <<>>

\* Leaf::new: the digest is computed once, at construction.
NewLeaf(v) ==
    LET leaf == [kind |-> "Leaf", value |-> v]
    IN  [kind |-> "Leaf", value |-> v, hash |-> FinishFull(NodeFeed(leaf))]

\* Variant of NewBranch: the children are stored the other way round.
NewBranchSwapped(l, r) ==
    LET branch == [kind |-> "Branch", left |-> r, right |-> l]
    IN  [kind |-> "Branch", left |-> r, right |-> l,
         hash |-> FinishFull(NodeFeed(branch))]

\* Branch::new: the digest is computed once, at construction.
NewBranch(l, r) ==
    LET branch == [kind |-> "Branch", left |-> l, right |-> r]
    IN  [kind |-> "Branch", left |-> l, right |-> r,
         hash |-> FinishFull(NodeFeed(branch))]

\* Node::hash_value: the cached digest.
HashValue(n) == n.hash

\* Node::left / Node::right: None for a Leaf.
Left(n)  == IF n.kind = "Branch" THEN n.left ELSE None
Right(n) == IF n.kind = "Branch" THEN n.right ELSE None

bigger(first, second) == IF first >= second THEN first ELSE second

RECURSIVE LeafCount(_)
\* Node::len / Branch::len: the number of leaves below a node (tree.rs
\* calls it leaf_count).
LeafCount(n) ==
    IF n.kind = "Leaf" THEN 1
    ELSE IF IsSome(n.left) /\ IsSome(n.right)
        THEN LeafCount(n.left) + LeafCount(n.right)
    ELSE IF IsSome(n.left) THEN LeafCount(n.left)
    ELSE IF IsSome(n.right) THEN LeafCount(n.right)
    ELSE 0

RECURSIVE Height(_)
\* Node::height / Branch::height.
Height(n) ==
    IF n.kind = "Leaf" THEN 0
    ELSE IF IsSome(n.left) /\ IsSome(n.right)
        THEN bigger(Height(n.left), Height(n.right)) + 1
    ELSE IF IsSome(n.left) THEN Height(n.left) + 1
    ELSE IF IsSome(n.right) THEN Height(n.right) + 1
    ELSE 0

RECURSIVE IsFinal(_)
\* Node::is_final / Branch::is_final.
IsFinal(n) ==
    IF n.kind = "Leaf" THEN TRUE
    ELSE IF IsSome(n.left) /\ IsSome(n.right)
        THEN IsFinal(n.left) /\ IsFinal(n.right)
    ELSE FALSE

\* ---------------------------------------------------------------- tree
VARIABLES
    nodes,      \* MerkleTree.nodes: the pending queue, front first
    root,       \* MerkleTree.root: a node or None
    inserted,   \* history: every value handed to insert/insert_items, in order
    call,       \* the last call made on the tree and what it returned
    panicked    \* build_tree evaluated height - 1 at height 0

vars == <<nodes, root, inserted, call, panicked>>

\* A proof call borrows the tree immutably and hands its result to the
\* caller.  The model keeps the call and its result in `call` and explores
\* nothing after it: the tree is as it was, so every state that follows a
\* proof call also follows the state the call was made in.
Returned == call.op \in {"value_proof", "tree_proof"}

RECURSIVE CeilLog2From(_, _, _)
\* The least k' >= k with n <= pow * 2^(k' - k), where pow = 2^k.
CeilLog2From(n, k, pow) ==
    IF pow >= n THEN k ELSE CeilLog2From(n, k + 1, 2 * pow)

\* Variant of CeilLog2: the logarithm is truncated, not rounded up.
FloorLog2(n) ==
    LET c == CeilLog2From(n, 0, 1) IN IF 2 ^ c = n THEN c ELSE c - 1

\* Variant of CeilLog2: rounding up done as truncation plus one.
FloorLog2Plus1(n) == FloorLog2(n) + 1

\* Variant of CeilLog2: the logarithm is rounded to the nearest integer
\* (log2 n >= f + 1/2 exactly when n * n >= 2^(2f + 1)).
RoundLog2(n) ==
    LET f == FloorLog2(n) IN IF n * n >= 2 ^ (2 * f + 1) THEN f + 1 ELSE f

\* f64::log2(n as f64).ceil() as usize, for n >= 1 (exact for the n of the
\* model: log2 of a power of two is exact in f64).
CeilLog2(n) == CeilLog2From(n, 0, 1)

\* Variant of NodesLeafCount: the number of nodes in the queue.
NodesLeafCountLen(q) == Len(q)

RECURSIVE NodesLeafCount(_)
\* MerkleTree::nodes_leaf_count: the fold of leaf_count over the queue.
NodesLeafCount(q) ==
    IF q = <<>> THEN 0 ELSE LeafCount(Head(q)) + NodesLeafCount(Tail(q))

RECURSIVE BuildTreeRightAsIs(_, _)
\* Variant of BuildTree: the right child is the front of the queue as it
\* is, whatever its height.
BuildTreeRightAsIs(q, height) ==
    IF q = <<>> THEN [node |-> None, rest |-> q, underflow |-> FALSE]
    ELSE IF Height(Head(q)) = height
        THEN [node |-> Head(q), rest |-> Tail(q), underflow |-> FALSE]
    ELSE IF height = 0
        THEN [node |-> None, rest |-> q, underflow |-> TRUE]
    ELSE
        LET l == BuildTreeRightAsIs(q, height - 1)
            r == IF l.rest = <<>>
                    THEN [node |-> None, rest |-> l.rest, underflow |-> FALSE]
                    ELSE [node |-> Head(l.rest), rest |-> Tail(l.rest),
                          underflow |-> FALSE]
        IN  IF l.underflow \/ r.underflow
                THEN [node |-> None, rest |-> r.rest, underflow |-> TRUE]
                ELSE [node |-> NewBranch(l.node, r.node), rest |-> r.rest,
                      underflow |-> FALSE]

RECURSIVE BuildTreeRightFirst(_, _)
\* Variant of BuildTree: the right child is built before the left one.
BuildTreeRightFirst(q, height) ==
    IF q = <<>> THEN [node |-> None, rest |-> q, underflow |-> FALSE]
    ELSE IF Height(Head(q)) = height
        THEN [node |-> Head(q), rest |-> Tail(q), underflow |-> FALSE]
    ELSE IF height = 0
        THEN [node |-> None, rest |-> q, underflow |-> TRUE]
    ELSE
        LET r == BuildTreeRightFirst(q, height - 1)
            l == BuildTreeRightFirst(r.rest, height - 1)
        IN  IF l.underflow \/ r.underflow
                THEN [node |-> None, rest |-> l.rest, underflow |-> TRUE]
                ELSE [node |-> NewBranch(l.node, r.node), rest |-> l.rest,
                      underflow |-> FALSE]

RECURSIVE BuildTree(_, _)
\* MerkleTree::build_tree(height) on the queue q.  The result holds the node
\* returned (None when the queue is empty), the queue left, and whether
\* height - 1 was evaluated at height 0 (usize underflow).
BuildTree(q, height) ==
    IF q = <<>> THEN [node |-> None, rest |-> q, underflow |-> FALSE]
    ELSE IF Height(Head(q)) = height
        THEN [node |-> Head(q), rest |-> Tail(q), underflow |-> FALSE]
    ELSE IF height = 0
        THEN [node |-> None, rest |-> q, underflow |-> TRUE]
    ELSE
        LET l == BuildTree(q, height - 1)
            r == BuildTree(l.rest, height - 1)
        IN  IF l.underflow \/ r.underflow
                THEN [node |-> None, rest |-> r.rest, underflow |-> TRUE]
                ELSE [node |-> NewBranch(l.node, r.node), rest |-> r.rest,
                      underflow |-> FALSE]

\* Variant of Recycle: a root that is not final is not descended.
RecycleFinalRoot(n) == IF IsFinal(n) THEN <<n>> ELSE <<>>

RECURSIVE RecycleLeaves(_)
\* Variant of Recycle: only a Leaf is pushed, a Branch is always descended.
RecycleLeaves(n) ==
    IF n.kind = "Leaf" THEN <<n>>
    ELSE (IF IsSome(Left(n)) THEN RecycleLeaves(Left(n)) ELSE <<>>)
         \o (IF IsSome(Right(n)) THEN RecycleLeaves(Right(n)) ELSE <<>>)

RECURSIVE RecycleBackToFront(_)
\* Variant of Recycle: the right child is recycled before the left one.
RecycleBackToFront(n) ==
    IF IsFinal(n) THEN <<n>>
    ELSE (IF IsSome(Right(n)) THEN RecycleBackToFront(Right(n)) ELSE <<>>)
         \o (IF IsSome(Left(n)) THEN RecycleBackToFront(Left(n)) ELSE <<>>)

RECURSIVE Recycle(_)
\* MerkleTree::recycle(root): the nodes pushed to the back of the queue, in
\* the order they are pushed.
Recycle(n) ==
    IF IsFinal(n) THEN <<n>>
    ELSE (IF IsSome(Left(n)) THEN Recycle(Left(n)) ELSE <<>>)
         \o (IF IsSome(Right(n)) THEN Recycle(Right(n)) ELSE <<>>)

\* Variant of RebuildTree: the new root is not recycled, the queue is left
\* empty after a build.
RebuildTreeNoRecycle(q, rt) ==
    LET nodes_len == NodesLeafCount(q)
    IN  IF q = <<>>
            THEN [nodes |-> q, root |-> None, panicked |-> FALSE]
        ELSE IF IsSome(rt) /\ LeafCount(rt) >= NodesLeafCount(q)
            THEN [nodes |-> q, root |-> rt, panicked |-> FALSE]
        ELSE
            LET built == BuildTree(q, CeilLog2(nodes_len))
            IN  IF built.underflow
                    THEN [nodes |-> q, root |-> rt, panicked |-> TRUE]
                    ELSE [nodes |-> <<>>, root |-> built.node,
                          panicked |-> FALSE]

\* MerkleTree::rebuild_tree on the tree <<q, rt>>: the tree it leaves.
RebuildTree(q, rt) ==
    LET nodes_len == NodesLeafCount(q)
    IN  IF q = <<>>
            THEN [nodes |-> q, root |-> None, panicked |-> FALSE]
        ELSE IF IsSome(rt) /\ LeafCount(rt) >= NodesLeafCount(q)
            THEN [nodes |-> q, root |-> rt, panicked |-> FALSE]
        ELSE
            LET built == BuildTree(q, CeilLog2(nodes_len))
            IN  IF built.underflow
                    THEN [nodes |-> q, root |-> rt, panicked |-> TRUE]
                    ELSE [nodes |-> IF IsSome(built.node)
                                      THEN Recycle(built.node) ELSE <<>>,
                          root |-> built.node, panicked |-> FALSE]

\* Variant of RootHashOf: without a root, the digest of a hasher that was
\* fed nothing.
RootHashOfNothing(rt) ==
    IF IsSome(rt) THEN [kind |-> "Some", hash |-> HashValue(rt)]
    ELSE [kind |-> "Some", hash |-> FinishFull(<<>>)]

\* MerkleTree::root_hash: the root's cached digest, None when there is no root.
RootHashOf(rt) == IF IsSome(rt) THEN [kind |-> "Some", hash |-> HashValue(rt)]
                  ELSE None
RootHash == RootHashOf(root)

\* MerkleTree::height: the root's height, 0 when there is no root.
TreeHeightOf(rt) == IF IsSome(rt) THEN Height(rt) ELSE 0
TreeHeight == TreeHeightOf(root)

\* MerkleTree::leaf_count: the root's leaf count, None when there is no root.
TreeLeafCountOf(rt) ==
    IF IsSome(rt) THEN [kind |-> "Some", count |-> LeafCount(rt)] ELSE None
TreeLeafCount == TreeLeafCountOf(root)

\* MerkleTree::with_hasher
Init ==
    /\ nodes = <<>>
    /\ root = None
    /\ inserted = <<>>
    /\ call = [op |-> "with_hasher"]
    /\ panicked = FALSE

\* The leaves pushed to the back of the queue for the values of items.
Leaves(items) == [i \in 1..Len(items) |-> NewLeaf(items[i])]

\* Variant of Insert: the new leaf is pushed to the front of the queue.
InsertFront(value) ==
    /\ ~panicked /\ ~Returned
    /\ Len(inserted) + 1 <= MaxLeaves
    /\ LET t == RebuildTree(<<NewLeaf(value)>> \o nodes, root)
       IN  /\ nodes' = t.nodes
           /\ root' = t.root
           /\ panicked' = t.panicked
    /\ inserted' = Append(inserted, value)
    /\ call' = [op |-> "insert"]

\* MerkleTree::insert(value)
Insert(value) ==
    /\ ~panicked /\ ~Returned
    /\ Len(inserted) + 1 <= MaxLeaves
    /\ LET t == RebuildTree(Append(nodes, NewLeaf(value)), root)
       IN  /\ nodes' = t.nodes
           /\ root' = t.root
           /\ panicked' = t.panicked
    /\ inserted' = Append(inserted, value)
    /\ call' = [op |-> "insert"]

\* MerkleTree::insert_items(items)
InsertItems(items) ==
    /\ ~panicked /\ ~Returned
    /\ Len(inserted) + Len(items) <= MaxLeaves
    /\ LET t == RebuildTree(nodes \o Leaves(items), root)
       IN  /\ nodes' = t.nodes
           /\ root' = t.root
           /\ panicked' = t.panicked
    /\ inserted' = inserted \o items
    /\ call' = [op |-> "insert_items", count |-> Len(items)]

\* ---------------------------------------------------------------- proofs
\* enum Proof: a sibling digest tagged Left or Right.
\* Variant of ProofRight: the step is tagged Left.
ProofRightTaggedLeft(h) == [side |-> "Left", hash |-> h]

ProofLeft(h)  == [side |-> "Left", hash |-> h]
ProofRight(h) == [side |-> "Right", hash |-> h]

RECURSIVE DataProofFirstMatch(_, _, _)
\* Variant of DataProof: below a Branch with two children the right subtree
\* is searched only when the left one gave no step.
DataProofFirstMatch(hash, height, n) ==
    IF height + 1 = Height(n) THEN
        IF IsSome(Left(n)) /\ IsSome(Right(n)) THEN
            IF HashValue(Left(n)) = hash
                THEN <<ProofRight(HashValue(Right(n)))>>
            ELSE IF HashValue(Right(n)) = hash
                THEN <<ProofLeft(HashValue(Left(n)))>>
            ELSE <<>>
        ELSE IF IsSome(Left(n)) THEN
            IF HashValue(Left(n)) = hash
                THEN <<ProofRight(HashValue(Left(n)))>>
            ELSE <<>>
        ELSE IF IsSome(Right(n)) THEN
            IF HashValue(Right(n)) = hash
                THEN <<ProofLeft(HashValue(Right(n)))>>
            ELSE <<>>
        ELSE <<>>
    ELSE
        IF IsSome(Left(n)) /\ IsSome(Right(n))
            THEN LET found == DataProofFirstMatch(hash, height, Left(n))
                 IN  IF found # <<>> THEN found
                     ELSE DataProofFirstMatch(hash, height, Right(n))
        ELSE IF IsSome(Left(n)) THEN DataProofFirstMatch(hash, height, Left(n))
        ELSE IF IsSome(Right(n)) THEN DataProofFirstMatch(hash, height, Right(n))
        ELSE <<>>

RECURSIVE DataProofNoCompare(_, _, _)
\* Variant of DataProof: the arm for a lone left child emits its step
\* without comparing the child's digest with the target.
DataProofNoCompare(hash, height, n) ==
    IF height + 1 = Height(n) THEN
        IF IsSome(Left(n)) /\ IsSome(Right(n)) THEN
            IF HashValue(Left(n)) = hash
                THEN <<ProofRight(HashValue(Right(n)))>>
            ELSE IF HashValue(Right(n)) = hash
                THEN <<ProofLeft(HashValue(Left(n)))>>
            ELSE <<>>
        ELSE IF IsSome(Left(n)) THEN <<ProofRight(HashValue(Left(n)))>>
        ELSE IF IsSome(Right(n)) THEN
            IF HashValue(Right(n)) = hash
                THEN <<ProofLeft(HashValue(Right(n)))>>
            ELSE <<>>
        ELSE <<>>
    ELSE
        IF IsSome(Left(n)) /\ IsSome(Right(n))
            THEN DataProofNoCompare(hash, height, Left(n))
                 \o DataProofNoCompare(hash, height, Right(n))
        ELSE IF IsSome(Left(n)) THEN DataProofNoCompare(hash, height, Left(n))
        ELSE IF IsSome(Right(n)) THEN DataProofNoCompare(hash, height, Right(n))
        ELSE <<>>

RECURSIVE DataProof(_, _, _)
\* MerkleTree::data_proof(hash, height, root)
DataProof(hash, height, n) ==
    IF height + 1 = Height(n) THEN
        IF IsSome(Left(n)) /\ IsSome(Right(n)) THEN
            IF HashValue(Left(n)) = hash
                THEN <<ProofRight(HashValue(Right(n)))>>
            ELSE IF HashValue(Right(n)) = hash
                THEN <<ProofLeft(HashValue(Left(n)))>>
            ELSE <<>>
        ELSE IF IsSome(Left(n)) THEN
            IF HashValue(Left(n)) = hash
                THEN <<ProofRight(HashValue(Left(n)))>>
            ELSE <<>>
        ELSE IF IsSome(Right(n)) THEN
            IF HashValue(Right(n)) = hash
                THEN <<ProofLeft(HashValue(Right(n)))>>
            ELSE <<>>
        ELSE <<>>
    ELSE
        IF IsSome(Left(n)) /\ IsSome(Right(n))
            THEN DataProof(hash, height, Left(n))
                 \o DataProof(hash, height, Right(n))
        ELSE IF IsSome(Left(n)) THEN DataProof(hash, height, Left(n))
        ELSE IF IsSome(Right(n)) THEN DataProof(hash, height, Right(n))
        ELSE <<>>

\* The digest value_proof searches for: the value hashed by a fresh hasher.
ValueDigest(value) == FinishFull(ValueFeed(value))

\* MerkleTree::value_proof(value) on the tree with root rt.
ValueProofOf(rt, value) ==
    IF IsSome(rt) THEN DataProof(ValueDigest(value), 0, rt) ELSE <<>>
ValueProof(value) == ValueProofOf(root, value)

\* The tree a caller builds from items with one insert_items on a new tree.
FreshTree(items) == RebuildTree(Leaves(items), None)

\* MerkleTree::tree_proof(tree) on the tree with root rt, for the argument
\* tree with root other.
TreeProofOf(rt, other) ==
    IF IsSome(RootHashOf(other)) THEN
        IF IsSome(rt) THEN DataProof(RootHashOf(other).hash, 0, rt) ELSE <<>>
    ELSE <<>>
TreeProof(other) == TreeProofOf(root, other)

RECURSIVE FoldFrom(_, _)
\* The verification loop of test_value_proof: one hasher per proof step,
\* fed the step's digest and the current digest in the order of the step's
\* side.
FoldFrom(current, proof) ==
    IF proof = <<>> THEN current
    ELSE LET piece == Head(proof)
         IN  IF piece.side = "Left"
                 THEN FoldFrom(FinishFull(piece.hash \o current), Tail(proof))
                 ELSE FoldFrom(FinishFull(current \o piece.hash), Tail(proof))

\* Verification of a value: the fold starts from the value's digest.
Fold(value, proof) == FoldFrom(ValueDigest(value), proof)

\* A call of value_proof(value); the tree is borrowed immutably.
ValueProofCall(value) ==
    /\ ~panicked /\ ~Returned
    /\ call' = [op |-> "value_proof", value |-> value,
                proof |-> ValueProof(value)]
    /\ UNCHANGED <<nodes, root, inserted, panicked>>

\* The runs of consecutive leaves of a tree with the leaves s.
Slices(s) == { SubSeq(s, i, j) : i \in 1..Len(s), j \in 0..Len(s) }

\* A call of tree_proof(tree) with a tree freshly built from items.
TreeProofCall(items) ==
    /\ ~panicked /\ ~Returned
    /\ call' = [op |-> "tree_proof", items |-> items,
                proof |-> TreeProof(FreshTree(items).root)]
    /\ UNCHANGED <<nodes, root, inserted, panicked>>

\* The values of s are named in the order of their first occurrence: a
\* value occurs only after each smaller one has.  The tree uses a value only
\* to hash it and the hash is one-to-one, so a run and the run with its
\* values renamed differ in the names alone; of the runs that differ so, the
\* one that inserts its values named in order is explored.
NamedInOrder(s) ==
    \A i \in 1..Len(s) : \A v \in 0..(s[i] - 1) : \E j \in 1..(i - 1) : s[j] = v

\* The values and the batches to insert next.
NextValues == { value \in Values : NamedInOrder(Append(inserted, value)) }
NextBatches == { items \in SeqsUpTo(MaxBatch) : NamedInOrder(inserted \o items) }

Next ==
    \/ \E value \in NextValues : Insert(value)
    \/ \E items \in NextBatches : InsertItems(items)
    \/ \E value \in Values : ValueProofCall(value)
    \/ \E items \in SeqsUpTo(MaxOther) \cup Slices(inserted) :
            TreeProofCall(items)

Spec == Init /\ [][Next]_vars

\* ---------------------------------------------------------------- properties
RECURSIVE LeafValues(_)
\* The values of the leaves below a node, left to right.
LeafValues(n) ==
    IF n.kind = "Leaf" THEN <<n.value>>
    ELSE IF n.kind = "Branch" THEN LeafValues(n.left) \o LeafValues(n.right)
    ELSE <<>>

RECURSIVE SubNodes(_)
\* The nodes of the subtree of a node, the node included.
SubNodes(n) ==
    IF n.kind = "Leaf" THEN {n}
    ELSE IF n.kind = "Branch" THEN {n} \cup SubNodes(n.left) \cup SubNodes(n.right)
    ELSE {}

Range(s) == { s[i] : i \in 1..Len(s) }

Distinct(s) == \A i, j \in 1..Len(s) : s[i] = s[j] => i = j

\* value_proof(value) has returned for a value that is a leaf of the tree.
ProvedPresent ==
    /\ call.op = "value_proof"
    /\ IsSome(root)
    /\ call.value \in Range(LeafValues(root))

\* C1: for every tree built by inserts and every leaf value present in it,
\* folding the proof value_proof returns for the value, from the value's
\* digest and step by step as the verification loop does, yields the tree's
\* root_hash().
C1_FoldReproducesRoot ==
    ProvedPresent => Fold(call.value, call.proof) = HashValue(root)

\* C2: for every tree with at least one leaf and pairwise distinct leaf
\* values, and every leaf value present in it, value_proof returns a
\* sequence whose length is height(): one step per level.
C2_ProofLengthIsHeight ==
    (ProvedPresent /\ Distinct(LeafValues(root)))
        => Len(call.proof) = Height(root)

RECURSIVE TreeByInserts(_, _)
\* The tree left by insert(value) for each value of items in turn, starting
\* from the tree t.
TreeByInserts(t, items) ==
    IF items = <<>> THEN t
    ELSE TreeByInserts(RebuildTree(Append(t.nodes, NewLeaf(Head(items))), t.root),
                       Tail(items))

EmptyTree == [nodes |-> <<>>, root |-> None, panicked |-> FALSE]

\* C3: for every non-empty leaf sequence, root_hash() is the same however
\* the sequence was split across insert and insert_items calls: the tree
\* reached has the root_hash() of a fresh tree given the whole sequence in
\* one batch, and of a fresh tree given it one leaf at a time.
C3_BatchingIndependent ==
    inserted # <<>> =>
        /\ IsSome(root)
        /\ RootHash = RootHashOf(FreshTree(inserted).root)
        /\ RootHash = RootHashOf(TreeByInserts(EmptyTree, inserted).root)

\* A tree of five leaves that was grown over several calls, the last one a
\* batch.
C3_Witness ==
    /\ Len(inserted) >= 5
    /\ call.op = "insert_items"
    /\ IsSome(root)

\* C4: after every insert or insert_items call the leaf count of the root is
\* the number of leaves ever inserted (no root while none was inserted).
C4_LeafCountIsInserted ==
    IF inserted = <<>> THEN ~IsSome(root)
    ELSE IsSome(root) /\ LeafCount(root) = Len(inserted)

\* A rebuild that consumed recycled subtrees and new leaves together.
C4_Witness ==
    /\ call.op = "insert_items"
    /\ Len(inserted) >= 5
    /\ IsSome(root) /\ LeafCount(root) >= 5
    /\ Len(nodes) >= 2

\* C5: with n = leaf_count() >= 1, height() is ceil(log2(n)): the least h
\* with n <= 2^h.
C5_HeightIsCeilLog2 ==
    IsSome(root) =>
        LET n == LeafCount(root)
            h == Height(root)
        IN  /\ n >= 1
            /\ n <= 2 ^ h
            /\ h > 0 => 2 ^ (h - 1) < n

\* The tree of seven leaves, of height 3.
C5_Witness ==
    /\ IsSome(root)
    /\ LeafCount(root) = 7
    /\ Height(root) = 3

\* C6: the leaves of the root, left to right, are the inserted values in
\* insertion order.
C6_LeafOrderIsInsertionOrder ==
    LeafValues(root) = inserted

\* A tree grown by single inserts whose leaves are not all equal, so that
\* an order other than insertion order shows.
C6_Witness ==
    /\ call.op = "insert"
    /\ Len(inserted) >= 5
    /\ inserted[1] # inserted[2]
    /\ inserted[4] # inserted[5]
    /\ LeafValues(root) = inserted

\* The perfect subtrees of T: a freshly built tree with the leaves of one
\* of them is that subtree.
PerfectSubtrees(n) == { m \in SubNodes(n) : IsFinal(m) }

\* tree_proof(O) has returned for a tree O freshly built from the leaves
\* of a perfect subtree of the tree.
ProvedSubtree ==
    /\ call.op = "tree_proof"
    /\ IsSome(root)
    /\ \E m \in PerfectSubtrees(root) : LeafValues(m) = call.items

\* C7: for a tree T and a freshly built tree O whose leaves are, in order,
\* the leaves of a contiguous subtree of T, the proof T.tree_proof(O)
\* returns, folded from O's root digest, reproduces T.root_hash(), and it
\* is not empty when O is a proper subtree of T.
C7_TreeProofVerifies ==
    ProvedSubtree =>
        LET other == FreshTree(call.items).root
        IN  /\ FoldFrom(HashValue(other), call.proof) = HashValue(root)
            /\ HashValue(other) # HashValue(root) => call.proof # <<>>

\* C8: inserting one more leaf, of a value that is no leaf of the tree yet,
\* into a non-empty tree changes root_hash().
C8_DistinctInsertChangesRoot ==
    [][(/\ IsSome(root)
        /\ call'.op \in {"insert", "insert_items"}
        /\ Len(inserted') = Len(inserted) + 1
        /\ inserted'[Len(inserted')] \notin Range(LeafValues(root)))
       => (IsSome(root') /\ RootHashOf(root') # RootHash)]_vars

\* A fourth leaf of a new value was inserted: the height stays 2.
C8_Witness ==
    /\ call.op = "insert"
    /\ Len(inserted) = 4
    /\ inserted[4] \notin {inserted[1], inserted[2], inserted[3]}
    /\ IsSome(root)

\* The Branches of the tree and of the pending queue.
Branches ==
    { b \in SubNodes(root) \cup UNION { SubNodes(nodes[i]) : i \in 1..Len(nodes) } :
        b.kind = "Branch" }

\* C9: a Branch's digest is H applied to the left child's cached digest
\* followed by the right child's cached digest, and to the lone child's
\* cached digest twice when there is one child.
C9_BranchDigestOfChildDigests ==
    \A b \in Branches :
        HashValue(b) =
            IF IsSome(b.left) /\ IsSome(b.right)
                THEN FinishFull(HashValue(b.left) \o HashValue(b.right))
            ELSE IF IsSome(b.left)
                THEN FinishFull(HashValue(b.left) \o HashValue(b.left))
            ELSE FinishFull(HashValue(b.right) \o HashValue(b.right))

\* The digests a forger may put in the place of a proof step's digest: the
\* digests of all values, of all nodes of the tree, and of the empty stream.
TamperDigests ==
    { ValueDigest(v) : v \in Values }
        \cup { HashValue(n) : n \in SubNodes(root) }
        \cup { FinishFull(<<>>) }

LeafDigests(rt) == { HashValue(n) : n \in { m \in SubNodes(rt) : m.kind = "Leaf" } }
NodeDigests(rt) == { HashValue(n) : n \in SubNodes(rt) }

\* The call c is value_proof(value) for a value whose digest is no leaf of
\* the tree with root rt.
AbsentValueCall(c, rt) ==
    /\ c.op = "value_proof"
    /\ ValueDigest(c.value) \notin LeafDigests(rt)

\* The call c is tree_proof(other) for a tree whose root digest (if it has
\* one) is the digest of no node of the tree with root rt.
AbsentTreeCall(c, rt) ==
    /\ c.op = "tree_proof"
    /\ LET other == RootHashOf(FreshTree(c.items).root)
       IN  IsSome(other) => other.hash \notin NodeDigests(rt)

\* C11: value_proof(value) for a value whose digest is no leaf of the tree,
\* and tree_proof(other) for a tree whose root digest does not occur in the
\* tree, return the empty sequence and leave root and pending as they were,
\* for every tree reachable by inserts.
C11_NotFoundIsEmpty ==
    [][(AbsentValueCall(call', root) \/ AbsentTreeCall(call', root))
       => (call'.proof = <<>> /\ nodes' = nodes /\ root' = root)]_vars

\* tree_proof has returned for a tree of two or more leaves whose root
\* digest is the digest of no node of a tree of height 2 or more.
C11_Witness ==
    /\ IsSome(root) /\ Height(root) >= 2
    /\ AbsentTreeCall(call, root)
    /\ Len(call.items) >= 2
    /\ call.proof = <<>>

\* C12: on a tree that has received no leaves (new, or after empty
\* insert_items batches only) root_hash() and leaf_count() are absent,
\* height() is 0, value_proof and tree_proof return the empty sequence for
\* every argument, and no call has failed.
C12_EmptyTreeQueries ==
    inserted = <<>> =>
        /\ ~panicked
        /\ ~IsSome(RootHash)
        /\ ~IsSome(TreeLeafCount)
        /\ TreeHeight = 0
        /\ \A value \in Values : ValueProof(value) = <<>>
        /\ \A items \in SeqsUpTo(MaxOther + 1) :
              TreeProof(FreshTree(items).root) = <<>>
        /\ Returned => call.proof = <<>>

\* A tree that has received an empty batch and nothing else.
C12_Witness ==
    /\ inserted = <<>>
    /\ call.op = "insert_items"

\* The Branches of the tree that hold a left child only.
LoneChildBranches == { b \in Branches : IsSome(b.left) /\ ~IsSome(b.right) }

\* C13: the single-child digest rule is unambiguous: a Branch holding only
\* child X never has the digest of a Branch whose two children both have
\* X's digest, and the tree of leaves [a, b, c] never has the root_hash() of
\* the tree of leaves [a, b, c, c].
C13_SingleChildUnambiguous ==
    /\ \A b \in LoneChildBranches :
          HashValue(b) # HashValue(NewBranch(b.left, b.left))
    /\ Len(inserted) = 3 =>
          RootHash # RootHashOf(FreshTree(Append(inserted, inserted[3])).root)

RECURSIVE IsPerfect(_)
\* A perfect binary tree: a Leaf, or a Branch with both children present,
\* both perfect and of the same height.
IsPerfect(n) ==
    \/ n.kind = "Leaf"
    \/ /\ n.kind = "Branch"
       /\ IsSome(n.left) /\ IsSome(n.right)
       /\ IsPerfect(n.left) /\ IsPerfect(n.right)
       /\ Height(n.left) = Height(n.right)

RECURSIVE Paths(_)
\* The positions of the nodes below n: 0 steps to the left child, 1 to the
\* right child.
Paths(n) ==
    IF n.kind = "Leaf" THEN {<<>>}
    ELSE IF n.kind = "Branch"
        THEN {<<>>} \cup { <<0>> \o p : p \in Paths(n.left) }
                    \cup { <<1>> \o p : p \in Paths(n.right) }
    ELSE {}

RECURSIVE At(_, _)
\* The node at position p below n.
At(n, p) ==
    IF p = <<>> THEN n
    ELSE At(IF Head(p) = 0 THEN n.left ELSE n.right, Tail(p))

ProperPrefixes(p) == { SubSeq(p, 1, k) : k \in 0 .. (Len(p) - 1) }

\* The positions of the maximal perfect subtrees of rt: perfect, and below
\* no other perfect subtree.
MaximalPerfect(rt) ==
    { p \in Paths(rt) :
        /\ IsPerfect(At(rt, p))
        /\ \A q \in ProperPrefixes(p) : ~IsPerfect(At(rt, q)) }

\* Position p lies to the left of position q (neither is above the other).
LeftOf(p, q) ==
    \E i \in 1 .. Len(p) :
        /\ i <= Len(q)
        /\ p[i] < q[i]
        /\ \A j \in 1 .. (i - 1) : p[j] = q[j]

\* The positions of S from left to right.
LeftToRight(S) ==
    CHOOSE s \in [1 .. Cardinality(S) -> S] :
        \A i, j \in 1 .. Cardinality(S) : i < j => LeftOf(s[i], s[j])

RECURSIVE QueueLeafValues(_)
\* The leaf values below the nodes of a queue, front to back.
QueueLeafValues(q) ==
    IF q = <<>> THEN <<>> ELSE LeafValues(Head(q)) \o QueueLeafValues(Tail(q))

\* C14: after every insert and insert_items call that leaves a root, the
\* pending queue holds exactly the maximal perfect subtrees of the root from
\* left to right: every element is perfect, none lies below another perfect
\* subtree of the root, and their leaves concatenated are the root's leaves.
C14_PendingIsMaximalPerfect ==
    (~Returned /\ IsSome(root)) =>
        LET S == MaximalPerfect(root)
            ps == LeftToRight(S)
        IN  /\ Len(nodes) = Cardinality(S)
            /\ \A i \in 1 .. Len(nodes) : nodes[i] = At(root, ps[i])
            /\ QueueLeafValues(nodes) = LeafValues(root)

\* A rebuild has left three pending subtrees of three different heights.
C14_Witness ==
    /\ call.op \in {"insert", "insert_items"}
    /\ Len(nodes) = 3
    /\ Height(nodes[1]) = 2 /\ Height(nodes[2]) = 1 /\ Height(nodes[3]) = 0
    /\ Height(root) = 3

RECURSIVE Spans(_, _)
\* The subtrees below n, each with the index of its first leaf, when off
\* leaves lie to the left of n.
Spans(n, off) ==
    IF n.kind = "Leaf" THEN {<<off + 1, n>>}
    ELSE IF n.kind = "Branch"
        THEN {<<off + 1, n>>}
             \cup Spans(n.left, off)
             \cup Spans(n.right,
                        off + (IF IsSome(n.left) THEN LeafCount(n.left) ELSE 0))
    ELSE {}

RECURSIVE BranchCount(_)
\* The number of Branch nodes below n, n included.
BranchCount(n) ==
    IF n.kind = "Branch" THEN 1 + BranchCount(n.left) + BranchCount(n.right)
    ELSE 0

RECURSIVE QueueBranchCount(_)
QueueBranchCount(q) ==
    IF q = <<>> THEN 0 ELSE BranchCount(Head(q)) + QueueBranchCount(Tail(q))

RECURSIVE Constructed(_, _)
\* The number of Branch::new calls build_tree(height) makes on the queue q:
\* one for each invocation that reaches the recursive arm.
Constructed(q, height) ==
    IF q = <<>> \/ Height(Head(q)) = height \/ height = 0 THEN 0
    ELSE Constructed(q, height - 1)
         + Constructed(BuildTree(q, height - 1).rest, height - 1)
         + 1

\* C15: across every insert and insert_items call, every subtree that was
\* pending before the new leaves were appended is a subtree of the new root,
\* over the same leaves, with identical structure and digest; and the
\* rebuild constructs no Branch inside one: the Branches it constructs are
\* exactly those of the new root outside the subtrees that were pending.
C15_PendingSubtreesReused ==
    [][call'.op \in {"insert", "insert_items"} =>
        LET added == SubSeq(inserted', Len(inserted) + 1, Len(inserted'))
            q == nodes \o Leaves(added)
        IN  /\ \A i \in 1 .. Len(nodes) :
                  <<NodesLeafCount(SubSeq(nodes, 1, i - 1)) + 1, nodes[i]>>
                      \in Spans(root', 0)
            /\ added # <<>> =>
                  Constructed(q, CeilLog2(NodesLeafCount(q)))
                      + QueueBranchCount(nodes) = BranchCount(root')]_vars

\* An insert has built a tree of seven leaves around the two subtrees that
\* were pending for the first six.
C15_Witness ==
    /\ call.op = "insert"
    /\ Len(inserted) = 7
    /\ IsSome(root) /\ Height(root) = 3
    /\ IsSome(Left(root)) /\ Height(Left(root)) = 2 /\ Left(root) = nodes[1]

\* C16: insert_items with an empty batch on a tree that has a root changes
\* nothing: root, pending, root_hash(), height() and leaf_count() are as
\* before, the root's leaf count being already that of the pending queue.
C16_EmptyBatchIsNoOp ==
    [][(IsSome(root) /\ call'.op = "insert_items" /\ call'.count = 0) =>
        /\ LeafCount(root) = NodesLeafCount(nodes)
        /\ root' = root
        /\ nodes' = nodes
        /\ RootHashOf(root') = RootHashOf(root)
        /\ TreeHeightOf(root') = TreeHeightOf(root)
        /\ TreeLeafCountOf(root') = TreeLeafCountOf(root)
        /\ ~panicked']_vars

\* An empty batch has been given to a tree of three leaves, whose root is
\* not itself pending.
C16_Witness ==
    /\ call.op = "insert_items" /\ call.count = 0
    /\ Len(inserted) = 3
    /\ IsSome(root) /\ Len(nodes) = 2

\* The digest a returned proof call searched for: the value's digest for
\* value_proof, the other tree's root_hash() for tree_proof (None when that
\* tree has no root).
ProofTarget ==
    IF call.op = "value_proof"
        THEN [kind |-> "Some", hash |-> ValueDigest(call.value)]
        ELSE RootHashOf(FreshTree(call.items).root)

RECURSIVE LeafParents(_)
\* The Branches of height 1 below n, from left to right.
LeafParents(n) ==
    IF n.kind # "Branch" THEN <<>>
    ELSE IF Height(n) = 1 THEN <<n>>
    ELSE LeafParents(n.left) \o LeafParents(n.right)

\* The Branches of height 1 below rt that have a child with digest h.
MatchingParents(rt, h) ==
    LET HasChild(b) == \/ IsSome(b.left) /\ HashValue(b.left) = h
                       \/ IsSome(b.right) /\ HashValue(b.right) = h
    IN  SelectSeq(LeafParents(rt), HasChild)

TwoChildren(b) == IsSome(b.left) /\ IsSome(b.right)

\* The step the claim gives for a two-child Branch b and target digest h:
\* the other child's digest, tagged with the other child's side.
SiblingStep(b, h) ==
    IF HashValue(b.left) = h
        THEN [side |-> "Right", hash |-> HashValue(b.right)]
        ELSE [side |-> "Left", hash |-> HashValue(b.left)]

AllNodes ==
    SubNodes(root) \cup UNION { SubNodes(nodes[i]) : i \in 1 .. Len(nodes) }

\* C18: for every node below the root or in the pending queue, is_final()
\* is true exactly when the node is a perfect binary tree (a Leaf, or a
\* Branch with both children present, both perfect and of the same height);
\* is_final() is never true of a Branch whose children differ in height.
C18_FinalIsPerfect ==
    \A n \in AllNodes :
        /\ IsFinal(n) <=> IsPerfect(n)
        /\ (n.kind = "Branch" /\ TwoChildren(n)
                /\ Height(n.left) # Height(n.right)) => ~IsFinal(n)

\* The tree holds a Branch with two children that is not final, a Branch
\* with one child, and a final Branch of height 2.
C18_Witness ==
    /\ \E n \in AllNodes : n.kind = "Branch" /\ TwoChildren(n) /\ ~IsFinal(n)
    /\ \E n \in AllNodes : n.kind = "Branch" /\ ~TwoChildren(n) /\ ~IsFinal(n)
    /\ \E n \in AllNodes : n.kind = "Branch" /\ Height(n) = 2 /\ IsFinal(n)

\* C19: once the tree holds a leaf, the pending queue is non-empty after
\* every later call, the root never returns to None, and leaf_count() never
\* decreases.
C19_NeverShrinks ==
    [][/\ IsSome(root') => nodes' # <<>>
       /\ IsSome(root) =>
             /\ IsSome(root')
             /\ nodes' # <<>>
             /\ TreeLeafCountOf(root').count >= TreeLeafCountOf(root).count]_vars

\* An empty batch has been given to a tree of five leaves whose root is not
\* final: the queue holds the recycled subtrees and the root is kept.
C19_Witness ==
    /\ call.op = "insert_items" /\ call.count = 0
    /\ Len(inserted) = 5
    /\ IsSome(root) /\ ~IsFinal(root)
    /\ Len(nodes) = 2

\* C20: every Branch of a reachable tree has at least one child, and a
\* missing child is only ever the right one: no Branch has no children and
\* none has a right child only.
C20_MissingChildIsRight ==
    \A b \in Branches : IsSome(b.left)

\* The tree holds a Branch with a left child only, above another one.
C20_Witness ==
    \E b \in Branches :
        /\ ~IsSome(b.right)
        /\ b.left.kind = "Branch" /\ ~IsSome(b.left.right)
        /\ b.left.left.kind = "Leaf"

RECURSIVE HeightsRespected(_, _)
\* Every invocation build_tree makes while serving build_tree(height) on the
\* queue q finds the queue empty or its front no taller than the height
\* requested.
HeightsRespected(q, height) ==
    \/ q = <<>>
    \/ /\ Height(Head(q)) <= height
       /\ \/ Height(Head(q)) = height
          \/ /\ height > 0
             /\ HeightsRespected(q, height - 1)
             /\ HeightsRespected(BuildTree(q, height - 1).rest, height - 1)

\* C21: in every insert and insert_items call that appends leaves,
\* build_tree is never invoked with a requested height smaller than the
\* height of the front of the pending queue, so height - 1 is never
\* evaluated at height 0, the rebuild terminates without a panic, and the
\* pending queue is empty when build_tree(target height) returns.
C21_BuildTreeConsumesQueue ==
    [][call'.op \in {"insert", "insert_items"} =>
        LET added == SubSeq(inserted', Len(inserted) + 1, Len(inserted'))
            q == nodes \o Leaves(added)
            target == CeilLog2(NodesLeafCount(q))
            built == BuildTree(q, target)
        IN  /\ ~panicked'
            /\ added # <<>> =>
                  /\ HeightsRespected(q, target)
                  /\ ~built.underflow
                  /\ built.rest = <<>>
                  /\ root' = built.node]_vars

\* A batch of two leaves has been appended to a queue holding subtrees of
\* heights 2 and 0, and the tree of seven leaves was rebuilt.
C21_Witness ==
    /\ call.op = "insert_items" /\ call.count = 2
    /\ Len(inserted) = 7
    /\ ~panicked
    /\ IsSome(root) /\ Height(root) = 3

RECURSIVE Shape(_)
\* The shape of the subtree of n: values and digests left out.
Shape(n) ==
    IF n.kind = "Branch"
        THEN [kind |-> "Branch", left |-> Shape(n.left), right |-> Shape(n.right)]
        ELSE [kind |-> n.kind]

RECURSIVE CanonicalShape(_, _)
\* The left-complete shape of height h over n leaves, 1 <= n <= 2^h: the
\* left subtree takes the first 2^(h-1) leaves, the right one the others.
CanonicalShape(n, h) ==
    IF h = 0 THEN [kind |-> "Leaf"]
    ELSE LET half == 2 ^ (h - 1)
         IN  IF n > half
                 THEN [kind |-> "Branch",
                       left |-> CanonicalShape(half, h - 1),
                       right |-> CanonicalShape(n - half, h - 1)]
                 ELSE [kind |-> "Branch",
                       left |-> CanonicalShape(n, h - 1),
                       right |-> [kind |-> "None"]]

\* The least h with n <= 2^h.
LeastHeight(n) ==
    CHOOSE h \in 0 .. n : 2 ^ h >= n /\ \A k \in 0 .. (h - 1) : 2 ^ k < n

\* C22: after any sequence of inserts the root is the canonical
\* left-complete tree: in every Branch of height h with two children the
\* left child is a perfect binary tree of height h-1 and the right child has
\* height h-1, in every Branch with a left child only that child has height
\* h-1, and the shape of the tree is a function of the number of leaves.
C22_CanonicalShape ==
    IsSome(root) =>
        /\ \A b \in { n \in SubNodes(root) : n.kind = "Branch" } :
              /\ IsSome(b.left)
              /\ Height(b.left) = Height(b) - 1
              /\ IsSome(b.right) =>
                    /\ IsPerfect(b.left)
                    /\ Height(b.right) = Height(b) - 1
        /\ Shape(root) = CanonicalShape(Len(inserted), LeastHeight(Len(inserted)))

\* A tree of seven leaves: the root and its right child both have two
\* children, the right child's right child has one.
C22_Witness ==
    /\ Len(inserted) = 7
    /\ IsSome(root) /\ Height(root) = 3
    /\ TwoChildren(root) /\ TwoChildren(root.right)
    /\ ~TwoChildren(root.right.right)
    /\ ~IsPerfect(root.right)

\* The pairs of consecutive leaves (2k-1, 2k), the last one possibly without
\* its second leaf, that hold the value v, by the index k of the pair.  A
\* tree of one leaf has no Branch, hence no pair.
PairsHolding(s, v) ==
    IF Len(s) < 2 THEN {}
    ELSE { k \in 1 .. ((Len(s) + 1) \div 2) :
             \/ s[2 * k - 1] = v
             \/ 2 * k <= Len(s) /\ s[2 * k] = v }

====
